---------------------------- MODULE Spec2Model ----------------------------
(***************************************************************************)
(* Weight binarization helper of the "Binary Networks using PyTorch"       *)
(* notebook: class Binarizer (constructor, binarize_weights, _save_params, *)
(* _binarize_weights, restore_weights, update_weight_gradients), the       *)
(* network Net it is built over, and the train() loop of the notebook.     *)
(*                                                                         *)
(* Tensors are functions from 0-based index tuples to exact rationals      *)
(* <<numerator, denominator>>; floating-point rounding is not modelled.    *)
(***************************************************************************)
EXTENDS Integers, Sequences, FiniteSets, TLC

(***************************************************************************)
(* Bounds of the model.                                                    *)
(***************************************************************************)
\* binarize_weights() calls explored in one behaviour
MaxBinarize == 2
\* optimizer steps (training batches) explored in one behaviour
MaxSteps == 1
\* weight patterns of the model handed to the Binarizer
NumSeeds == 3
\* longest module list of the constructor specification
MaxModules == 4
\* elements of the tensors BinaryActivation is applied to
ActLen == 3

(***************************************************************************)
(* Exact rational arithmetic: <<n, d>> with d > 0 and gcd(|n|, d) = 1.     *)
(***************************************************************************)
Abs(x) == IF x < 0 THEN -x ELSE x

RECURSIVE GCD(_, _)
GCD(a, b) == IF b = 0 THEN a ELSE GCD(b, a % b)

Rat(n, d) == LET g == GCD(Abs(n), d) IN <<n \div g, d \div g>>

Zero == <<0, 1>>
One == <<1, 1>>
MinusOne == <<-1, 1>>

RAdd(a, b) == Rat(a[1] * b[2] + b[1] * a[2], a[2] * b[2])
RNeg(a) == <<-a[1], a[2]>>
RSub(a, b) == RAdd(a, RNeg(b))
RMul(a, b) == Rat(a[1] * b[1], a[2] * b[2])
RDivInt(a, k) == Rat(a[1], a[2] * k)
RAbs(a) == <<Abs(a[1]), a[2]>>
RLess(a, b) == a[1] * b[2] < b[1] * a[2]
\* torch.sign: -1, 0 or +1
RSign(a) == IF a[1] > 0 THEN One ELSE IF a[1] < 0 THEN MinusOne ELSE Zero
\* torch.clamp(min, max) on one element
RClamp(a, lo, hi) == IF RLess(a, lo) THEN lo ELSE IF RLess(hi, a) THEN hi ELSE a

(***************************************************************************)
(* Tensors: [size |-> <<d1, ..., dr>>, data |-> [Indices(size) -> Rat]].   *)
(***************************************************************************)
Range(s) == {s[k] : k \in DOMAIN s}

RECURSIVE MaxOf(_, _)
MaxOf(size, k) == IF k = 0 THEN 0
                  ELSE LET r == MaxOf(size, k - 1) IN IF size[k] > r THEN size[k] ELSE r

Indices(size) ==
    CASE Len(size) = 1 -> {<<a>> : a \in 0..(size[1] - 1)}
      [] Len(size) = 2 -> {<<a, b>> : a \in 0..(size[1] - 1), b \in 0..(size[2] - 1)}
      [] Len(size) = 4 -> {<<a, b, c, d>> : a \in 0..(size[1] - 1), b \in 0..(size[2] - 1),
                                           c \in 0..(size[3] - 1), d \in 0..(size[4] - 1)}
      [] OTHER -> {idx \in [1..Len(size) -> 0..(MaxOf(size, Len(size)) - 1)] :
                        \A k \in 1..Len(size) : idx[k] < size[k]}

\* row-major position of an index
RECURSIVE Flat(_, _, _)
Flat(idx, size, k) == IF k = 0 THEN 0 ELSE Flat(idx, size, k - 1) * size[k] + idx[k]

\* t[0].nelement(): the number of elements from dimension k on
RECURSIVE NElementFrom(_, _)
NElementFrom(size, k) == IF k > Len(size) THEN 1 ELSE size[k] * NElementFrom(size, k + 1)

\* broadcasting: sizes are aligned on their last dimension, a missing leading
\* dimension counts as 1, and a dimension of size 1 is read at index 0
Max2(a, b) == IF a > b THEN a ELSE b
RECURSIVE PadSize(_, _)
PadSize(size, r) == IF Len(size) >= r THEN size ELSE PadSize(<<1>> \o size, r)
BIdx(idx, size) ==
    [k \in 1..Len(size) |-> IF size[k] = 1 THEN 0 ELSE idx[k + (Len(idx) - Len(size))]]
RECURSIVE BSizePadded(_, _, _)
BSizePadded(p1, p2, k) ==
    IF k > Len(p1) THEN <<>> ELSE <<Max2(p1[k], p2[k])>> \o BSizePadded(p1, p2, k + 1)
BSize(s1, s2) ==
    BSizePadded(PadSize(s1, Max2(Len(s1), Len(s2))), PadSize(s2, Max2(Len(s1), Len(s2))), 1)
\* the two sizes can be broadcast together
BroadcastablePadded(p1, p2) == \A k \in 1..Len(p1) : p1[k] = p2[k] \/ p1[k] = 1 \/ p2[k] = 1
Broadcastable(s1, s2) ==
    BroadcastablePadded(PadSize(s1, Max2(Len(s1), Len(s2))),
                        PadSize(s2, Max2(Len(s1), Len(s2))))
\* dst.copy_(src) is accepted: src broadcasts to exactly the size of dst
CanCopy(dst, src) == Broadcastable(dst.size, src.size) /\ BSize(dst.size, src.size) = dst.size

\* a tensor holds its elements: they are computed when the operation runs
Stored(f) == f @@ <<>>

RECURSIVE SumOver(_, _)
SumOver(f, S) == IF S = {} THEN Zero
                 ELSE LET x == CHOOSE x \in S : TRUE IN RAdd(f[x], SumOver(f, S \ {x}))

\* the size of a keepdim reduction: the reduced dimensions become 1
RECURSIVE KeepDimSize(_, _, _)
KeepDimSize(size, dims, k) ==
    IF k > Len(size) THEN <<>>
    ELSE <<IF (k - 1) \in dims THEN 1 ELSE size[k]>> \o KeepDimSize(size, dims, k + 1)

\* the elements of t that are summed into position idx of the reduction
SumTerms(t, dims, idx) ==
    {j \in Indices(t.size) : \A k \in 1..Len(t.size) : (k - 1) \notin dims => j[k] = idx[k]}

\* t.sum(dims, keepdim=True); dims are 0-based dimensions
SumDimsTo(t, dims, rs) ==
    [size |-> rs,
     data |-> Stored([idx \in Indices(rs) |-> SumOver(t.data, SumTerms(t, dims, idx))])]
SumDims(t, dims) == SumDimsTo(t, dims, KeepDimSize(t.size, dims, 1))

\* t.abs()
AbsT(t) ==
    [size |-> t.size, data |-> Stored([idx \in Indices(t.size) |-> RAbs(t.data[idx])])]
\* t.mul(c), t.div(n) with a scalar
MulScalar(t, c) ==
    [size |-> t.size, data |-> Stored([idx \in Indices(t.size) |-> RMul(t.data[idx], c)])]
DivScalar(t, n) ==
    [size |-> t.size, data |-> Stored([idx \in Indices(t.size) |-> RDivInt(t.data[idx], n)])]
\* (mutant) a sign that maps 0 to +1
SignOneAtZero(t) ==
    [size |-> t.size,
     data |-> Stored([idx \in Indices(t.size) |->
                        IF t.data[idx][1] >= 0 THEN One ELSE MinusOne])]
\* t.sign()
Sign(t) ==
    [size |-> t.size, data |-> Stored([idx \in Indices(t.size) |-> RSign(t.data[idx])])]
\* t.clamp(lo, hi)
Clamp(t, lo, hi) ==
    [size |-> t.size,
     data |-> Stored([idx \in Indices(t.size) |-> RClamp(t.data[idx], lo, hi)])]
\* t.mean(dim, keepdim=True)
Mean(t, dim) == DivScalar(SumDims(t, {dim}), t.size[dim + 1])
\* (mutant) a plain sum, without the absolute value
Norm1NoAbs(t, dim) == SumDims(t, {dim})
\* t.norm(1, dim, keepdim=True): the sum of absolute values along dim
Norm1(t, dim) == SumDims(AbsT(t), {dim})
\* t.add(u), t.mul(u) with broadcasting
Add(t, u) ==
    LET s == BSize(t.size, u.size)
    IN  [size |-> s,
         data |-> Stored([idx \in Indices(s) |->
                     RAdd(t.data[BIdx(idx, t.size)], u.data[BIdx(idx, u.size)])])]
Mul(t, u) ==
    LET s == BSize(t.size, u.size)
    IN  [size |-> s,
         data |-> Stored([idx \in Indices(s) |->
                     RMul(t.data[BIdx(idx, t.size)], u.data[BIdx(idx, u.size)])])]
\* dst.copy_(src): in place, dst keeps its size
Copy_(dst, src) ==
    [size |-> dst.size,
     data |-> Stored([idx \in Indices(dst.size) |-> src.data[BIdx(idx, src.size)]])]
\* t.clone()
Clone(t) == t

(***************************************************************************)
(* Modules (layers) and their parameters.                                  *)
(***************************************************************************)
Conv2d(in_channels, out_channels, kernel_size) ==
    [kind |-> "Conv2d", in_channels |-> in_channels, out_channels |-> out_channels,
     kernel_size |-> kernel_size]
Linear(in_features, out_features) ==
    [kind |-> "Linear", in_features |-> in_features, out_features |-> out_features]
BatchNorm2d(num_features) == [kind |-> "BatchNorm2d", num_features |-> num_features]
BatchNorm1d(num_features) == [kind |-> "BatchNorm1d", num_features |-> num_features]

\* the notebook's network, in the order model.modules() yields its layers
Net == <<Conv2d(1, 10, 5), BatchNorm2d(10), Conv2d(10, 20, 5),
         BatchNorm1d(320), Linear(320, 50), Linear(50, 10)>>

\* the same architecture with small layers
SmallNet == <<Conv2d(1, 2, 2), BatchNorm2d(2), Conv2d(2, 2, 2),
              BatchNorm1d(3), Linear(3, 2), Linear(2, 2)>>

\* the models the binarizer is exercised on
Models == {SmallNet,
           <<Linear(3, 2), Linear(2, 1)>>,
           <<Conv2d(2, 1, 2), BatchNorm2d(1), Linear(1, 2), Linear(3, 1)>>,
           <<Linear(2, 2), BatchNorm1d(2), Conv2d(2, 2, 1)>>,
           <<BatchNorm1d(2)>>}

\* the layers the module lists of the constructor specification are made of
LayerChoices == {Conv2d(2, 1, 1), Linear(2, 1), BatchNorm1d(1)}

ModuleLists == UNION {[1..n -> LayerChoices] : n \in 0..MaxModules} \cup {Net}

isinstance(m, kind) == m.kind = kind

\* the shape of a layer's weight and bias
WeightSize(m) ==
    CASE m.kind = "Conv2d" -> <<m.out_channels, m.in_channels, m.kernel_size, m.kernel_size>>
      [] m.kind = "Linear" -> <<m.out_features, m.in_features>>
      [] OTHER -> <<m.num_features>>
BiasSize(m) ==
    CASE m.kind = "Conv2d" -> <<m.out_channels>>
      [] m.kind = "Linear" -> <<m.out_features>>
      [] OTHER -> <<m.num_features>>

ParamIds(mods) == {<<k, n>> : k \in 1..Len(mods), n \in {"weight", "bias"}}
ParamSize(mods, p) == IF p[2] = "weight" THEN WeightSize(mods[p[1]]) ELSE BiasSize(mods[p[1]])

\* the weights of the model handed to the Binarizer (freshly initialised, loaded
\* or already trained): the values they are drawn from, and the pattern a seed selects
InitVals == <<Zero, One, MinusOne, <<3, 1>>, <<-3, 2>>>>
Fill(size, seed, off) ==
    [size |-> size,
     data |-> [idx \in Indices(size) |->
                 InitVals[((seed * Flat(idx, size, Len(size)) + off + seed) % Len(InitVals)) + 1]]]
InitParams(mods, seed) ==
    [p \in ParamIds(mods) |->
        Fill(ParamSize(mods, p), seed, IF p[2] = "weight" THEN p[1] ELSE p[1] + 2)]

\* the gradient patterns a backward pass may produce, and the values they draw from
GradSeeds == {0, 1}
GradVals == <<One, <<-1, 2>>, Zero, <<-2, 1>>>>
GradFill(size, seed, off) ==
    [size |-> size,
     data |-> [idx \in Indices(size) |->
                 GradVals[(((seed + 1) * Flat(idx, size, Len(size)) + off + seed) % Len(GradVals)) + 1]]]

(***************************************************************************)
(* State.                                                                  *)
(***************************************************************************)
VARIABLES
    modules,            \* model.modules(): the layers, in traversal order
    params,             \* the model's parameters: <<layer, "weight" | "bias">> -> tensor
    grads,              \* each parameter's .grad: a tensor, or None
    ignore_first_last,  \* the constructor's argument
    saved_params,       \* Binarizer.saved_params: the shadow buffers
    target_modules,     \* Binarizer.target_modules: references to the tracked parameters
    num_of_params,      \* Binarizer.num_of_params
    mean,               \* the scale _binarize_weights last computed for each tracked parameter
    pc,                 \* "new", "idle", or the statement train() is about to execute
    error,              \* the exception that ended the last call, "" when none
    entry,              \* the tracked parameters on entry to the last binarize_weights()
    phase,              \* what the tracked parameters hold
    grad_phase,         \* the phase under which the last backward pass ran
    n_binarize,         \* binarize_weights() calls so far
    n_steps,            \* optimizer steps so far
    ctor,               \* the tracked list and the tracked values as __init__ left them
    entry_phase,        \* what the tracked parameters held on entry to the last binarize_weights()
    act                 \* one application of BinaryActivation: its tensors and its position

vars == <<modules, params, grads, ignore_first_last, saved_params, target_modules,
          num_of_params, mean, pc, error, entry, phase, grad_phase, n_binarize, n_steps,
          ctor, entry_phase, act>>

\* a local variable that has not been assigned
Unbound == [unbound |-> TRUE]

\* a parameter's .grad before any backward pass
None == [none |-> TRUE]

\* BinaryActivation is not being applied
NoActivation == [pc |-> "none"]

(***************************************************************************)
(* model = Net(), with any weights; the Binarizer is not constructed yet.  *)
(***************************************************************************)
InitWith(mods, seed, flag) ==
    /\ modules = mods
    /\ params = InitParams(mods, seed)
    /\ grads = [p \in ParamIds(mods) |-> None]
    /\ ignore_first_last = flag
    /\ saved_params = <<>>
    /\ target_modules = <<>>
    /\ num_of_params = 0
    /\ mean = <<>>
    /\ pc = "new"
    /\ error = ""
    /\ entry = <<>>
    /\ phase = "REAL"
    /\ grad_phase = "none"
    /\ n_binarize = 0
    /\ n_steps = 0
    /\ ctor = None
    /\ entry_phase = "none"

Init == \E mods \in Models, seed \in 0..(NumSeeds - 1), flag \in BOOLEAN :
            InitWith(mods, seed, flag) /\ act = NoActivation

InitCtor == \E mods \in ModuleLists, flag \in BOOLEAN :
                InitWith(mods, 1, flag) /\ act = NoActivation

(***************************************************************************)
(* Binarizer.__init__                                                      *)
(***************************************************************************)
\* (mutant) the weight of every layer is collected, whatever its class
RECURSIVE CollectEveryLayer(_, _, _, _, _)
CollectEveryLayer(mods, ps, k, sp, tm) ==
    IF k > Len(mods) THEN [saved_params |-> sp, target_modules |-> tm]
    ELSE CollectEveryLayer(mods, ps, k + 1,
                           Append(sp, Clone(ps[<<k, "weight">>])), Append(tm, <<k, "weight">>))

\* (mutant) the buffers are allocated zero-filled instead of cloned
RECURSIVE CollectLoopZeros(_, _, _, _, _)
CollectLoopZeros(mods, ps, k, sp, tm) ==
    IF k > Len(mods) THEN [saved_params |-> sp, target_modules |-> tm]
    ELSE IF isinstance(mods[k], "Conv2d") \/ isinstance(mods[k], "Linear")
         THEN CollectLoopZeros(mods, ps, k + 1,
                               Append(sp, MulScalar(ps[<<k, "weight">>], Zero)),
                               Append(tm, <<k, "weight">>))
         ELSE CollectLoopZeros(mods, ps, k + 1, sp, tm)

\* for m in model.modules(): collect the weight of every Conv2d and Linear
RECURSIVE CollectLoop(_, _, _, _, _)
CollectLoop(mods, ps, k, sp, tm) ==
    IF k > Len(mods) THEN [saved_params |-> sp, target_modules |-> tm]
    ELSE IF isinstance(mods[k], "Conv2d") \/ isinstance(mods[k], "Linear")
         THEN CollectLoop(mods, ps, k + 1,
                          Append(sp, Clone(ps[<<k, "weight">>])), Append(tm, <<k, "weight">>))
         ELSE CollectLoop(mods, ps, k + 1, sp, tm)

\* s[1:-1]
SliceFirstLast(s) == SubSeq(s, 2, Len(s) - 1)

\* (mutant) the length test is off by one
ExcludesFromTwo(flag, tm) == flag /\ Len(tm) >= 2

\* if ignore_first_last and len(self.target_modules) > 2
Excludes(flag, tm) == flag /\ Len(tm) > 2

BinarizerInit ==
    /\ pc = "new"
    /\ LET c == CollectLoop(modules, params, 1, <<>>, <<>>)
           x == Excludes(ignore_first_last, c.target_modules)
           sp == IF x THEN SliceFirstLast(c.saved_params) ELSE c.saved_params
           tm == IF x THEN SliceFirstLast(c.target_modules) ELSE c.target_modules
       IN  /\ saved_params' = sp
           /\ target_modules' = tm
           /\ num_of_params' = Len(tm)
           /\ ctor' = [target_modules |-> tm, values |-> [i \in 1..Len(tm) |-> params[tm[i]]]]
    /\ pc' = "idle"
    /\ UNCHANGED <<act, entry_phase, modules, params, grads, ignore_first_last, mean, error,
                   entry, phase, grad_phase, n_binarize, n_steps>>

(***************************************************************************)
(* Binarizer.binarize_weights                                              *)
(***************************************************************************)
\* (mutant) the clamp is missing
CenterOnly(t) == Add(t, MulScalar(Mean(t, 1), MinusOne))

\* (mutant) the mean is taken along dimension 0
CenterClampDim0(t) == Clamp(Add(t, MulScalar(Mean(t, 0), MinusOne)), MinusOne, One)

\* (mutant) the negated mean replaces the weight instead of being added to it
CenterClampNegMean(t) == Clamp(MulScalar(Mean(t, 1), MinusOne), MinusOne, One)

\* mean center the real params along dimension 1, then clamp them to [-1, 1]
CenterClamp(t) == Clamp(Add(t, MulScalar(Mean(t, 1), MinusOne)), MinusOne, One)

\* (mutant) the loop runs over every Conv2d and Linear weight of the model
CenterClampEveryWeight(ps, tm, k) ==
    [params |-> [p \in DOMAIN ps |->
                    IF p[2] = "weight" /\ Len(ps[p].size) \in {2, 4}
                    THEN CenterClamp(ps[p]) ELSE ps[p]],
     error |-> ""]

\* for m in self.target_modules: center and clamp m.data; mean(1) needs a dimension 1
RECURSIVE CenterClampLoop(_, _, _)
CenterClampLoop(ps, tm, k) ==
    IF k > Len(tm) THEN [params |-> ps, error |-> ""]
    ELSE IF Len(ps[tm[k]].size) < 2 THEN [params |-> ps, error |-> "IndexError"]
    ELSE CenterClampLoop([ps EXCEPT ![tm[k]] = CenterClamp(ps[tm[k]])], tm, k + 1)

\* (mutant) the values are appended to the list instead of copied into its buffers
SaveParamsAppend(sp, ps, tm, k) ==
    [saved_params |-> sp \o [i \in 1..Len(tm) |-> ps[tm[i]]], error |-> ""]

\* (mutant) the buffers are left as they are
SaveParamsKeep(sp, ps, tm, k) == [saved_params |-> sp, error |-> ""]

\* for i in range(len(self.saved_params)): saved_params[i].copy_(target_modules[i].data)
RECURSIVE SaveParams(_, _, _, _)
SaveParams(sp, ps, tm, k) ==
    IF k > Len(sp) THEN [saved_params |-> sp, error |-> ""]
    ELSE IF ~CanCopy(sp[k], ps[tm[k]]) THEN [saved_params |-> sp, error |-> "RuntimeError"]
    ELSE SaveParams([sp EXCEPT ![k] = Copy_(sp[k], ps[tm[k]])], ps, tm, k + 1)

\* (mutant) the division by n is missing
Scale2NoDiv(t, n) == Norm1(t, 1)

\* (mutant) the kernel height is left out of the sum
Scale4SumInputOnly(t, n) == DivScalar(SumDims(Norm1(t, 3), {1}), n)
\* the scale of a 4-dimensional and of a 2-dimensional weight
Scale4(t, n) == DivScalar(SumDims(Norm1(t, 3), {1, 2}), n)
Scale2(t, n) == DivScalar(Norm1(t, 1), n)

\* for m in self.target_modules: m.data = m.data.sign().mul(mean); the local
\* variable mean keeps its value when the weight is neither 4- nor 2-dimensional
RECURSIVE BinarizeLoop(_, _, _, _, _)
BinarizeLoop(ps, tm, k, mn, means) ==
    IF k > Len(tm) THEN [params |-> ps, means |-> means, error |-> ""]
    ELSE LET t == ps[tm[k]]
             n == NElementFrom(t.size, 2)
             s == t.size
             mn2 == IF Len(s) = 4 THEN Scale4(t, n)
                    ELSE IF Len(s) = 2 THEN Scale2(t, n)
                    ELSE mn
         IN  IF mn2 = Unbound
             THEN [params |-> ps, means |-> means, error |-> "UnboundLocalError"]
             ELSE IF ~Broadcastable(s, mn2.size)
             THEN [params |-> ps, means |-> means, error |-> "RuntimeError"]
             ELSE BinarizeLoop([ps EXCEPT ![tm[k]] = Mul(Sign(t), mn2)], tm, k + 1,
                               mn2, Append(means, mn2))

TrackedValues(ps, tm) == [i \in 1..Len(tm) |-> ps[tm[i]]]

\* (mutant) the buffers are written after the sign x scale overwrite
AfterSaveParamsLate(c, s, tm) ==
    IF s.error # ""
    THEN [params |-> c.params, saved_params |-> s.saved_params, means |-> <<>>,
          error |-> s.error]
    ELSE [saved_params |->
             TrackedValues(BinarizeLoop(c.params, tm, 1, Unbound, <<>>).params, tm)]
         @@ BinarizeLoop(c.params, tm, 1, Unbound, <<>>)

\* the three steps of binarize_weights in order; an exception ends the call where it is raised
AfterSaveParams(c, s, tm) ==
    IF s.error # ""
    THEN [params |-> c.params, saved_params |-> s.saved_params, means |-> <<>>,
          error |-> s.error]
    ELSE [saved_params |-> s.saved_params] @@ BinarizeLoop(c.params, tm, 1, Unbound, <<>>)
AfterCenterClamp(c, sp, tm) ==
    IF c.error # ""
    THEN [params |-> c.params, saved_params |-> sp, means |-> <<>>, error |-> c.error]
    ELSE AfterSaveParams(c, SaveParams(sp, c.params, tm, 1), tm)
BinarizeWeights(ps, sp, tm) == AfterCenterClamp(CenterClampLoop(ps, tm, 1), sp, tm)

binarize_weights ==
    /\ pc = "idle"
    /\ error = ""
    /\ n_binarize < MaxBinarize
    /\ LET b == BinarizeWeights(params, saved_params, target_modules)
       IN  /\ saved_params' = b.saved_params
           /\ params' = b.params
           /\ mean' = b.means
           /\ error' = b.error
           /\ phase' = IF b.error = "" THEN "SHADOWED_AND_BINARIZED" ELSE "BINARIZE_FAILED"
    /\ entry' = TrackedValues(params, target_modules)
    /\ entry_phase' = IF phase = "REAL_INITIAL" THEN "REAL" ELSE phase
    /\ n_binarize' = n_binarize + 1
    /\ UNCHANGED <<act, ctor, modules, grads, ignore_first_last, target_modules,
                   num_of_params, pc, grad_phase, n_steps>>

(***************************************************************************)
(* Binarizer.restore_weights                                               *)
(***************************************************************************)
\* (mutant) the loop stops one parameter short
RECURSIVE RestoreLoopShort(_, _, _, _, _)
RestoreLoopShort(ps, sp, tm, num, k) ==
    IF k > num - 1 THEN [params |-> ps, error |-> ""]
    ELSE IF ~CanCopy(ps[tm[k]], sp[k]) THEN [params |-> ps, error |-> "RuntimeError"]
    ELSE RestoreLoopShort([ps EXCEPT ![tm[k]] = Copy_(ps[tm[k]], sp[k])], sp, tm, num, k + 1)

\* (mutant) the shadow is added to the parameter instead of copied over it
RECURSIVE RestoreLoopAdd(_, _, _, _, _)
RestoreLoopAdd(ps, sp, tm, num, k) ==
    IF k > num THEN [params |-> ps, error |-> ""]
    ELSE RestoreLoopAdd([ps EXCEPT ![tm[k]] = Add(ps[tm[k]], sp[k])], sp, tm, num, k + 1)

\* for index in range(self.num_of_params): target_modules[index].data.copy_(saved_params[index])
RECURSIVE RestoreLoop(_, _, _, _, _)
RestoreLoop(ps, sp, tm, num, k) ==
    IF k > num THEN [params |-> ps, error |-> ""]
    ELSE IF ~CanCopy(ps[tm[k]], sp[k]) THEN [params |-> ps, error |-> "RuntimeError"]
    ELSE RestoreLoop([ps EXCEPT ![tm[k]] = Copy_(ps[tm[k]], sp[k])], sp, tm, num, k + 1)

restore_weights ==
    /\ pc = "idle"
    /\ error = ""
    /\ LET r == RestoreLoop(params, saved_params, target_modules, num_of_params, 1)
       IN  /\ params' = r.params
           /\ error' = r.error
           /\ phase' = IF r.error # "" THEN "RESTORE_FAILED"
                       ELSE IF n_binarize > 0 THEN "REAL_CLAMPED" ELSE "REAL_INITIAL"
    /\ UNCHANGED <<act, ctor, entry_phase, modules, grads, ignore_first_last, saved_params,
                   target_modules, num_of_params, mean, pc, entry, grad_phase, n_binarize,
                   n_steps>>

(***************************************************************************)
(* Binarizer.update_weight_gradients: reads each weight, changes nothing   *)
(***************************************************************************)
\* (mutant) the gradients are multiplied by a negative number
UpdateWeightGradientsNegate(gs, ps, tm) ==
    [p \in DOMAIN gs |-> IF gs[p] = None THEN None ELSE MulScalar(gs[p], MinusOne)]

\* for module in self.target_modules: weight = module.data -- the gradients stay as they are
UpdateWeightGradients(gs, ps, tm) == gs

update_weight_gradients ==
    /\ pc = "idle"
    /\ error = ""
    /\ \A i \in 1..Len(target_modules) : params[target_modules[i]].size # <<>>
    /\ grads' = UpdateWeightGradients(grads, params, target_modules)
    /\ UNCHANGED <<act, ctor, entry_phase, modules, params, ignore_first_last, saved_params,
                   target_modules, num_of_params, mean, pc, error, entry, phase, grad_phase,
                   n_binarize, n_steps>>

(***************************************************************************)
(* train(epoch)                                                            *)
(***************************************************************************)
\* train(epoch) is called: model.train(), then the loop over the batches
train ==
    /\ pc = "idle"
    /\ error = ""
    /\ n_steps < MaxSteps
    /\ pc' = "for"
    /\ UNCHANGED <<act, ctor, entry_phase, modules, params, grads, ignore_first_last,
                   saved_params, target_modules, num_of_params, mean, error, entry, phase,
                   grad_phase, n_binarize, n_steps>>

\* for batch_idx, (data, target) in enumerate(train_loader)
train_for ==
    /\ pc = "for"
    /\ \/ /\ n_steps < MaxSteps
          /\ pc' = "zero_grad"
       \/ pc' = "idle"
    /\ UNCHANGED <<act, ctor, entry_phase, modules, params, grads, ignore_first_last,
                   saved_params, target_modules, num_of_params, mean, error, entry, phase,
                   grad_phase, n_binarize, n_steps>>

\* optimizer.zero_grad()
ZeroOf(t) == [size |-> t.size, data |-> [idx \in Indices(t.size) |-> Zero]]

zero_grad ==
    /\ pc = "zero_grad"
    /\ grads' = [p \in DOMAIN grads |-> IF grads[p] = None THEN None ELSE ZeroOf(grads[p])]
    /\ pc' = "forward"
    /\ UNCHANGED <<act, ctor, entry_phase, modules, params, ignore_first_last, saved_params,
                   target_modules, num_of_params, mean, error, entry, phase, grad_phase,
                   n_binarize, n_steps>>

\* output = model(data); loss = criterion(output, target): reads the parameters
forward ==
    /\ pc = "forward"
    /\ pc' = "backward"
    /\ UNCHANGED <<act, ctor, entry_phase, modules, params, grads, ignore_first_last,
                   saved_params, target_modules, num_of_params, mean, error, entry, phase,
                   grad_phase, n_binarize, n_steps>>

\* loss.backward(): accumulates a gradient into every parameter's .grad
backward ==
    /\ pc = "backward"
    /\ \E g \in GradSeeds :
          grads' = [p \in DOMAIN grads |->
                      LET new == GradFill(params[p].size, g, p[1])
                      IN  IF grads[p] = None THEN new ELSE Add(grads[p], new)]
    /\ grad_phase' = phase
    /\ pc' = "step"
    /\ UNCHANGED <<act, ctor, entry_phase, modules, params, ignore_first_last, saved_params,
                   target_modules, num_of_params, mean, error, entry, phase, n_binarize,
                   n_steps>>

\* optimizer.step(): every parameter with a gradient moves against it
optimizer_step ==
    /\ pc = "step"
    /\ params' = [p \in DOMAIN params |->
                    IF grads[p] = None THEN params[p]
                    ELSE Add(params[p], MulScalar(grads[p], MinusOne))]
    /\ phase' = CASE phase \in {"REAL_CLAMPED", "REAL_INITIAL"} -> "REAL"
                  [] phase = "SHADOWED_AND_BINARIZED" -> "BINARIZED_UPDATED"
                  [] OTHER -> phase
    /\ n_steps' = n_steps + 1
    /\ pc' = "for"
    /\ UNCHANGED <<act, ctor, entry_phase, modules, grads, ignore_first_last, saved_params,
                   target_modules, num_of_params, mean, error, entry, grad_phase,
                   n_binarize>>

Next ==
    \/ BinarizerInit
    \/ binarize_weights
    \/ restore_weights
    \/ update_weight_gradients
    \/ train
    \/ train_for
    \/ zero_grad
    \/ forward
    \/ backward
    \/ optimizer_step

Spec == Init /\ [][Next]_vars

\* the constructor alone, over every module list up to MaxModules layers and over Net
SpecCtor == InitCtor /\ [][BinarizerInit]_vars

(***************************************************************************)
(* BinaryActivation (a torch.autograd.Function): one forward, then one     *)
(* backward with the gradient of its output.                               *)
(***************************************************************************)
ActSizes == {<<ActLen>>, <<1, ActLen>>}
ActVals == {<<-3, 2>>, Zero, <<1, 2>>, One}
ActGradVals == {One, <<-1, 2>>}
ActInputs == UNION {{[size |-> size, data |-> d] : d \in [Indices(size) -> ActVals]} :
                        size \in ActSizes}
ActGrads(size) == {[size |-> size, data |-> d] : d \in [Indices(size) -> ActGradVals]}

\* (mutant) the sign is taken in place: input.sign_()
BinaryActivationForwardInPlace(input) ==
    [input |-> Sign(input), saved_tensors |-> <<Sign(input)>>, output |-> Sign(input)]

\* ctx.save_for_backward(input); return input.sign()
BinaryActivationForward(input) ==
    [input |-> input, saved_tensors |-> <<input>>, output |-> Sign(input)]

\* (mutant) the gradient is zeroed where the saved input lies outside [-1, 1]
BinaryActivationBackwardClipped(saved_tensors, grad_output) ==
    [size |-> grad_output.size,
     data |-> [idx \in Indices(grad_output.size) |->
                 IF RLess(One, RAbs(saved_tensors[1].data[idx])) THEN Zero
                 ELSE grad_output.data[idx]]]

\* input, = ctx.saved_tensors; grad_input = grad_output.clone(); return grad_input
BinaryActivationBackward(saved_tensors, grad_output) == Clone(grad_output)

BinaryActivation_forward ==
    /\ act.pc = "forward"
    /\ LET f == BinaryActivationForward(act.input)
       IN  act' = [act EXCEPT !.pc = "backward", !.input = f.input,
                              !.saved_tensors = f.saved_tensors, !.output = f.output]
    /\ UNCHANGED <<ctor, entry_phase, modules, params, grads, ignore_first_last, saved_params,
                   target_modules, num_of_params, mean, pc, error, entry, phase, grad_phase,
                   n_binarize, n_steps>>

BinaryActivation_backward ==
    /\ act.pc = "backward"
    /\ \E g \in ActGrads(act.output.size) :
          act' = [act EXCEPT !.pc = "done", !.grad_output = g,
                             !.grad_input = BinaryActivationBackward(act.saved_tensors, g)]
    /\ UNCHANGED <<ctor, entry_phase, modules, params, grads, ignore_first_last, saved_params,
                   target_modules, num_of_params, mean, pc, error, entry, phase, grad_phase,
                   n_binarize, n_steps>>

\* BinaryActivation.apply(x) for any tensor x; given keeps the values x had at the call
InitAct ==
    /\ InitWith(<<>>, 0, FALSE)
    /\ \E x \in ActInputs :
          act = [pc |-> "forward", given |-> x, input |-> x, saved_tensors |-> <<>>,
                 output |-> None, grad_output |-> None, grad_input |-> None]

NextAct == BinaryActivation_forward \/ BinaryActivation_backward

SpecAct == InitAct /\ [][NextAct]_vars

(***************************************************************************)
(* The tracked list holds references to the model's own weights, which the *)
(* host can reassign between two calls: weight.data = <another tensor>.    *)
(***************************************************************************)
\* the sizes the host assigns: the first dimension dropped, or one more output channel / unit
ReplacementSizes(size) == {Tail(size), <<size[1] + 1>> \o Tail(size)}

assign_weight_data ==
    /\ pc = "idle"
    /\ error = ""
    /\ \A p \in DOMAIN params : grads[p] = None /\ params[p].size = ParamSize(modules, p)
    /\ \E i \in 1..Len(target_modules) :
          \E size \in ReplacementSizes(params[target_modules[i]].size) :
              params' = [params EXCEPT ![target_modules[i]] = Fill(size, 1, i)]
    /\ UNCHANGED <<act, ctor, entry_phase, modules, grads, ignore_first_last, saved_params,
                   target_modules, num_of_params, mean, pc, error, entry, phase, grad_phase,
                   n_binarize, n_steps>>

InitExt == \E mods \in Models, flag \in BOOLEAN : InitWith(mods, 1, flag) /\ act = NoActivation

NextExt == Next \/ assign_weight_data

\* the Binarizer and train(), with a host that reassigns one tracked weight
SpecExt == InitExt /\ [][NextExt]_vars

(***************************************************************************)
(* Vocabulary of the properties, written element by element and            *)
(* independently of the operators above.                                   *)
(***************************************************************************)
Tracked == 1..Len(target_modules)
TrackedParam(i) == params[target_modules[i]]

\* the index of output channel / unit o in a keepdim-reduced tensor of rank r
ChannelIdx(o, r) == [k \in 1..r |-> IF k = 1 THEN o ELSE 0]

\* the sum of t over dimension 1 (the input channel / input unit) at the position of idx
RECURSIVE SumAlongDim1(_, _, _)
SumAlongDim1(t, idx, j) ==
    IF j < 0 THEN Zero
    ELSE RAdd(t.data[[idx EXCEPT ![2] = j]], SumAlongDim1(t, idx, j - 1))

\* clamp(w - mean(w), -1, 1) at one position, the mean taken over dimension 1
CenteredClampedAt(t, idx) ==
    LET c == RSub(t.data[idx], RDivInt(SumAlongDim1(t, idx, t.size[2] - 1), t.size[2]))
    IN  IF RLess(c, MinusOne) THEN MinusOne ELSE IF RLess(One, c) THEN One ELSE c

IsCenteredClampedOf(s, t) ==
    /\ s.size = t.size
    /\ \A idx \in Indices(t.size) : s.data[idx] = CenteredClampedAt(t, idx)

\* the elements of output channel / unit o
SliceOf(t, o) == {idx \in Indices(t.size) : idx[1] = o}
SliceIsZero(t, o) == \A idx \in SliceOf(t, o) : t.data[idx] = Zero
IsZeroTensor(t) == \A idx \in Indices(t.size) : t.data[idx] = Zero

\* sum of |t| over one output channel / unit, divided by the slice's element count
RECURSIVE AbsSum(_, _)
AbsSum(t, S) ==
    IF S = {} THEN Zero
    ELSE LET x == CHOOSE x \in S : TRUE
         IN  RAdd(IF t.data[x][1] < 0 THEN RNeg(t.data[x]) ELSE t.data[x], AbsSum(t, S \ {x}))
MeanAbsOfSlice(t, o) == RDivInt(AbsSum(t, SliceOf(t, o)), Cardinality(SliceOf(t, o)))

\* the scale computed for output channel / unit o of tracked parameter i
ScaleAt(i, o) == mean[i].data[ChannelIdx(o, Len(mean[i].size))]

\* eligible layers, by kind alone
EligibleLayers == {k \in 1..Len(modules) : modules[k].kind \in {"Conv2d", "Linear"}}
NumEligible == Cardinality(EligibleLayers)
\* the i-th eligible layer (0-based) in traversal order
EligibleAt(i) == CHOOSE k \in EligibleLayers :
                    Cardinality({j \in EligibleLayers : j < k}) = i
ExcludedLayers ==
    IF ignore_first_last /\ NumEligible >= 3
    THEN {EligibleAt(0), EligibleAt(NumEligible - 1)}
    ELSE {}

Constructed == pc # "new"
Binarized == Constructed /\ phase = "SHADOWED_AND_BINARIZED"
Restored == Constructed /\ phase = "REAL_CLAMPED"

(***************************************************************************)
(* C1. Round trip: after restore_weights() following a binarize_weights(), *)
(* however many binarize/restore cycles came before and whatever ran in    *)
(* between, every tracked parameter equals its shadow buffer, and that is  *)
(* the centered-and-clamped image of the value the parameter had on entry  *)
(* to the most recent binarize_weights().                                  *)
(***************************************************************************)
C1_RoundTrip ==
    Restored =>
        \A i \in Tracked :
            /\ TrackedParam(i) = saved_params[i]
            /\ IsCenteredClampedOf(TrackedParam(i), entry[i])

\* a second cycle has been restored, and restoring brought back values that
\* differ from what the parameter held on entry to binarize_weights()
C1_Witness ==
    /\ Restored
    /\ n_binarize >= 2
    /\ n_steps = 0
    /\ \E i \in Tracked : TrackedParam(i) # entry[i] /\ ~IsZeroTensor(TrackedParam(i))

(***************************************************************************)
(* C4. Immediately after binarize_weights(), shadow[i] equals              *)
(* clamp(w_i - mean(w_i), -1, 1) for the value w_i the parameter had on    *)
(* entry, the mean taken along dimension 1; the shadow is neither the      *)
(* unclamped value nor the binarized one.                                  *)
(***************************************************************************)
C4_ShadowIsCenteredClamped ==
    Binarized => \A i \in Tracked : IsCenteredClampedOf(saved_params[i], entry[i])

\* a shadow that differs both from the value on entry (an element was clamped
\* to the bound) and from the binarized value now in the parameter
C4_Witness ==
    /\ Binarized
    /\ \E i \in Tracked :
          /\ saved_params[i] # entry[i]
          /\ saved_params[i] # TrackedParam(i)
          /\ \E idx \in Indices(entry[i].size) :
                /\ RLess(One, entry[i].data[idx])
                /\ saved_params[i].data[idx] = One

(***************************************************************************)
(* C2. Whenever the optimizer step of train() is about to run, no tracked  *)
(* parameter holds a binarized value: the tracked weights are binarized    *)
(* only between binarize and the end of the backward pass.                 *)
(* train() never calls restore_weights(), so weights binarized before it   *)
(* reach optimizer.step() binarized.                                       *)
(***************************************************************************)
C2_RealAtOptimizerStep ==
    (pc = "step" /\ Tracked # {}) => phase # "SHADOWED_AND_BINARIZED"

(***************************************************************************)
(* C3. In every training step the order is binarize -> forward -> backward *)
(* -> restore -> optimizer step: the forward and the backward pass run on  *)
(* binarized tracked weights, and the optimizer runs on the restored       *)
(* weights with gradients computed under the binarized ones.               *)
(* train() calls neither binarize_weights() nor restore_weights().         *)
(***************************************************************************)
C3_FixedOrder ==
    Tracked # {} =>
        /\ pc \in {"forward", "backward"} => phase = "SHADOWED_AND_BINARIZED"
        /\ pc = "step" => phase = "REAL_CLAMPED" /\ grad_phase = "SHADOWED_AND_BINARIZED"

(***************************************************************************)
(* C5. After binarize_weights(), every element of every tracked parameter  *)
(* is sign(v) * scale[o] for the shadow value v at the same position and   *)
(* the element's output channel / unit o: +scale[o] where v > 0,           *)
(* -scale[o] where v < 0, and exactly 0 where v = 0.                       *)
(***************************************************************************)
C5_SignTimesScale ==
    Binarized =>
        \A i \in Tracked :
            /\ TrackedParam(i).size = saved_params[i].size
            /\ \A idx \in Indices(saved_params[i].size) :
                  LET v == saved_params[i].data[idx]
                      w == TrackedParam(i).data[idx]
                      sc == ScaleAt(i, idx[1])
                  IN  /\ v[1] > 0 => w = sc
                      /\ v[1] < 0 => w = RNeg(sc)
                      /\ v[1] = 0 => w = Zero

\* a zero shadow element in a slice whose scale is positive, next to elements
\* that binarized to +scale and to -scale
C5_Witness ==
    /\ Binarized
    /\ \E i \in Tracked : \E a, b, c \in Indices(saved_params[i].size) :
          /\ a[1] = b[1] /\ b[1] = c[1]
          /\ saved_params[i].data[a] = Zero
          /\ TrackedParam(i).data[a] = Zero
          /\ RLess(Zero, ScaleAt(i, a[1]))
          /\ TrackedParam(i).data[b] = ScaleAt(i, a[1])
          /\ TrackedParam(i).data[c] = RNeg(ScaleAt(i, a[1]))

(***************************************************************************)
(* C6. The scale is computed per output channel / unit from the post-clamp *)
(* weight (the shadow): for a weight of shape (O, I, H, W),                *)
(* scale[o] = sum over i,h,w of |w[o,i,h,w]| / (I*H*W); for a weight of    *)
(* shape (O, I), scale[o] = sum over i of |w[o,i]| / I.                    *)
(***************************************************************************)
C6_ScalePerOutputChannel ==
    Binarized =>
        \A i \in Tracked :
            LET w == saved_params[i]
                r == Len(w.size)
            IN  /\ mean[i].size = [k \in 1..r |-> IF k = 1 THEN w.size[1] ELSE 1]
                /\ \A o \in 0..(w.size[1] - 1) :
                      /\ ScaleAt(i, o) = MeanAbsOfSlice(w, o)
                      /\ Cardinality(SliceOf(w, o)) =
                            IF r = 4 THEN w.size[2] * w.size[3] * w.size[4] ELSE w.size[2]

\* a 4-dimensional and a 2-dimensional tracked weight, each with several
\* input channels / units and a scale strictly between 0 and 1
C6_Witness ==
    /\ Binarized
    /\ \E i, j \in Tracked :
          /\ Len(saved_params[i].size) = 4
          /\ saved_params[i].size[2] > 1 /\ saved_params[i].size[3] > 1
          /\ Len(saved_params[j].size) = 2
          /\ saved_params[j].size[2] > 1
          /\ RLess(Zero, ScaleAt(i, 0)) /\ RLess(ScaleAt(i, 0), One)
          /\ RLess(Zero, ScaleAt(j, 0)) /\ RLess(ScaleAt(j, 0), One)

(***************************************************************************)
(* C7 as stated. For any weight tensor passed to binarize_weights() that   *)
(* is not all zero, every computed scale is strictly positive.             *)
(***************************************************************************)
C7_PositiveForNonZeroInput ==
    Binarized =>
        \A i \in Tracked :
            ~IsZeroTensor(entry[i]) =>
                \A o \in 0..(entry[i].size[1] - 1) : RLess(Zero, ScaleAt(i, o))

(***************************************************************************)
(* C7 amended. After binarize_weights(), the scale of an output channel /  *)
(* unit is strictly positive exactly when its centered-and-clamped slice   *)
(* (the shadow) has a non-zero element; for a slice that is all zero after *)
(* centering and clamping the scale is exactly zero and the binarized      *)
(* slice is all zeros.                                                     *)
(***************************************************************************)
C7_PositiveForNonZeroSlice ==
    Binarized =>
        \A i \in Tracked : \A o \in 0..(saved_params[i].size[1] - 1) :
            /\ ~SliceIsZero(saved_params[i], o) => RLess(Zero, ScaleAt(i, o))
            /\ SliceIsZero(saved_params[i], o) =>
                  ScaleAt(i, o) = Zero /\ SliceIsZero(TrackedParam(i), o)

\* one tracked weight with a slice of positive scale, and a tracked weight that
\* was not zero on entry with a slice that centering turned into zeros
C7_Witness ==
    /\ Binarized
    /\ \E i \in Tracked : \E o \in 0..(saved_params[i].size[1] - 1) :
          ~SliceIsZero(saved_params[i], o) /\ RLess(Zero, ScaleAt(i, o))
    /\ \E i \in Tracked : \E o \in 0..(saved_params[i].size[1] - 1) :
          /\ ~SliceIsZero(entry[i], o)
          /\ SliceIsZero(saved_params[i], o)
          /\ ScaleAt(i, o) = Zero
          /\ SliceIsZero(TrackedParam(i), o)

(***************************************************************************)
(* C8. No call of binarize_weights(), restore_weights() or                 *)
(* update_weight_gradients() changes a parameter outside the tracked set:  *)
(* the biases, the batch-norm parameters and the weights of the excluded   *)
(* first and last eligible layers keep their values.                       *)
(***************************************************************************)
Untracked(p) ==
    \/ p \notin Range(target_modules)
    \/ p[2] = "bias"
    \/ modules[p[1]].kind \in {"BatchNorm1d", "BatchNorm2d"}
    \/ p[1] \in ExcludedLayers

\* a step of one of the Binarizer's methods: the host stays between two calls
BinarizerCall == pc = "idle" /\ pc' = "idle"

C8_UntrackedUntouched ==
    [][BinarizerCall =>
          \A p \in DOMAIN params : Untracked(p) => params'[p] = params[p]]_vars

\* binarize_weights() has changed a tracked weight of a model that has excluded
\* first and last layers, batch-norm parameters and biases, none of them zero
C8_Witness ==
    /\ Binarized
    /\ ExcludedLayers # {}
    /\ \A k \in ExcludedLayers : ~IsZeroTensor(params[<<k, "weight">>])
    /\ \E k \in 1..Len(modules) :
          /\ modules[k].kind \in {"BatchNorm1d", "BatchNorm2d"}
          /\ ~IsZeroTensor(params[<<k, "weight">>])
    /\ \E i \in Tracked :
          /\ TrackedParam(i) # entry[i]
          /\ ~IsZeroTensor(params[<<target_modules[i][1], "bias">>])

(***************************************************************************)
(* C9. Exclusion policy: with ignore_first_last set and n eligible layers, *)
(* the tracked list is the eligible layers 1..n-2 in order when n >= 3,    *)
(* and all of them when n < 3; with the flag unset all n are tracked.      *)
(***************************************************************************)
C9_ExclusionPolicy ==
    Constructed =>
        LET n == NumEligible
        IN  IF ignore_first_last /\ n >= 3
            THEN target_modules = [i \in 1..(n - 2) |-> <<EligibleAt(i), "weight">>]
            ELSE target_modules = [i \in 1..n |-> <<EligibleAt(i - 1), "weight">>]

\* four eligible layers with the flag set: the two in the middle are tracked
C9_Witness ==
    /\ Constructed
    /\ ignore_first_last
    /\ NumEligible = 4
    /\ target_modules = <<<<EligibleAt(1), "weight">>, <<EligibleAt(2), "weight">>>>

(***************************************************************************)
(* C10. The constructor collects, in traversal order, weights of Conv2d    *)
(* and Linear layers only (never a batch-norm weight, never a bias), each  *)
(* with a shadow buffer of its shape; for Net with ignore_first_last the   *)
(* tracked list is [conv2.weight (20,10,5,5), fc1.weight (50,320)].        *)
(***************************************************************************)
C10_Eligibility ==
    Constructed =>
        /\ \A i \in Tracked :
              /\ target_modules[i][2] = "weight"
              /\ target_modules[i][1] \in EligibleLayers
              /\ i > 1 => target_modules[i - 1][1] < target_modules[i][1]
        /\ \A k \in EligibleLayers \ ExcludedLayers : <<k, "weight">> \in Range(target_modules)
        /\ Len(saved_params) = Len(target_modules)
        /\ (modules = Net /\ ignore_first_last) =>
              /\ target_modules = <<<<3, "weight">>, <<5, "weight">>>>
              /\ TrackedParam(1).size = <<20, 10, 5, 5>>
              /\ TrackedParam(2).size = <<50, 320>>
              /\ saved_params[1] = params[<<3, "weight">>]
              /\ saved_params[2] = params[<<5, "weight">>]

\* the Binarizer has been built over Net with the default flag
C10_Witness ==
    /\ Constructed
    /\ modules = Net
    /\ ignore_first_last
    /\ num_of_params = 2
    /\ modules[target_modules[1][1]].kind = "Conv2d"
    /\ modules[target_modules[2][1]].kind = "Linear"

(***************************************************************************)
(* C11: in every state after construction, whatever calls of               *)
(* binarize_weights, restore_weights and update_weight_gradients (and      *)
(* training steps) came before, saved_params, target_modules and           *)
(* num_of_params agree in length, saved_params[i] is the buffer of         *)
(* target_modules[i] (it has that parameter's size), and target_modules is *)
(* the list the constructor built: nothing added, removed or reordered.    *)
(***************************************************************************)
C11_Alignment ==
    Constructed =>
        /\ Len(saved_params) = Len(target_modules)
        /\ Len(target_modules) = num_of_params
        /\ target_modules = ctor.target_modules
        /\ \A i \in Tracked :
              /\ saved_params[i].size = TrackedParam(i).size
              /\ \A j \in Tracked : target_modules[i] = target_modules[j] => i = j

\* two tracked parameters of different sizes, after two binarize/restore cycles and a step
C11_Witness ==
    /\ Restored
    /\ n_binarize >= 2
    /\ n_steps > 0
    /\ num_of_params >= 2
    /\ saved_params[1].size # saved_params[2].size

(***************************************************************************)
(* C12: restore_weights is idempotent: called again right after a          *)
(* restore_weights, with no binarize_weights and no optimizer step in      *)
(* between, it leaves every tracked parameter and every shadow buffer as   *)
(* the first call left them.                                               *)
(***************************************************************************)
AfterRestore == Constructed /\ phase \in {"REAL_CLAMPED", "REAL_INITIAL"}

C12_RestoreIdempotent ==
    [][(AfterRestore /\ restore_weights) =>
          /\ error' = ""
          /\ saved_params' = saved_params
          /\ \A i \in Tracked : params'[target_modules[i]] = params[target_modules[i]]]_vars

\* a restore has brought back values other than the ones binarize_weights left,
\* and restore_weights can be called again
C12_Witness ==
    /\ Restored
    /\ pc = "idle"
    /\ error = ""
    /\ \E i \in Tracked :
          /\ ~IsZeroTensor(TrackedParam(i))
          /\ \E idx \in Indices(TrackedParam(i).size) :
                TrackedParam(i).data[idx] # RMul(RSign(TrackedParam(i).data[idx]),
                                                 ScaleAt(i, idx[1]))

(***************************************************************************)
(* C13: after any sequence of binarize_weights and restore_weights calls,  *)
(* every tracked parameter and every shadow buffer has the size (rank and  *)
(* dimensions) it had at construction.                                     *)
(***************************************************************************)
C13_ShapePreserved ==
    Constructed =>
        \A i \in Tracked :
            /\ TrackedParam(i).size = ctor.values[i].size
            /\ saved_params[i].size = ctor.values[i].size

\* a second binarize after a restore, over a 4-dimensional and a 2-dimensional weight
\* with more than one input channel / unit
C13_Witness ==
    /\ Binarized
    /\ entry_phase = "REAL_CLAMPED"
    /\ \E i, j \in Tracked :
          /\ Len(TrackedParam(i).size) = 4
          /\ Len(TrackedParam(j).size) = 2
          /\ TrackedParam(i).size[2] > 1
          /\ TrackedParam(j).size[2] > 1

(***************************************************************************)
(* C14: constructing the Binarizer over a model with no Conv2d and no      *)
(* Linear layer fails with ConfigurationError; no Binarizer with an empty  *)
(* tracked list comes out of the constructor.                              *)
(***************************************************************************)
C14_NoEligibleLayerFails ==
    (Constructed /\ NumEligible = 0) => error = "ConfigurationError"

(***************************************************************************)
(* C15: binarize_weights over a tracked parameter whose rank is neither 2  *)
(* nor 4 fails with ConfigurationError, wherever that parameter stands in  *)
(* the tracked list.                                                       *)
(***************************************************************************)
AfterBinarizeCall == Constructed /\ phase \in {"SHADOWED_AND_BINARIZED", "BINARIZE_FAILED"}

C15_UnsupportedRankFails ==
    (AfterBinarizeCall /\ \E i \in DOMAIN entry : Len(entry[i].size) \notin {2, 4})
        => error = "ConfigurationError"

(***************************************************************************)
(* C16: a binarize_weights or restore_weights call that fails has changed  *)
(* no tracked parameter and no shadow buffer.                              *)
(***************************************************************************)
C16_NoPartialSuccess ==
    [][(error = "" /\ error' # "") =>
          /\ saved_params' = saved_params
          /\ \A i \in Tracked : params'[target_modules[i]] = params[target_modules[i]]]_vars

(***************************************************************************)
(* C17: BinaryActivation.forward returns a tensor of the input's size      *)
(* holding, element by element, +1 where the input is positive, -1 where   *)
(* it is negative and 0 where it is exactly zero; neither forward nor      *)
(* backward changes an element of the input tensor.                        *)
(***************************************************************************)
C17_ForwardIsSign ==
    act.pc \in {"backward", "done"} =>
        /\ act.output.size = act.given.size
        /\ \A idx \in Indices(act.given.size) :
              act.output.data[idx] = IF act.given.data[idx][1] > 0 THEN One
                                     ELSE IF act.given.data[idx][1] < 0 THEN MinusOne
                                     ELSE Zero
        /\ act.input = act.given

\* forward and backward have run on an input with a positive, a negative and a zero element
C17_Witness ==
    /\ act.pc = "done"
    /\ act.grad_input # None
    /\ \E i, j, k \in Indices(act.given.size) :
          /\ act.given.data[i][1] > 0
          /\ act.given.data[i] # One
          /\ act.given.data[j][1] < 0
          /\ act.given.data[k] = Zero

(***************************************************************************)
(* C18: update_weight_gradients changes the sign of no gradient component  *)
(* of a tracked parameter (a gradient that is None stays None) and leaves  *)
(* every tracked parameter and every shadow buffer as they are.            *)
(***************************************************************************)
SameSigns(g, h) ==
    IF g = None \/ h = None THEN g = h
    ELSE /\ g.size = h.size
         /\ \A idx \in Indices(g.size) :
               /\ (g.data[idx][1] > 0 <=> h.data[idx][1] > 0)
               /\ (g.data[idx][1] < 0 <=> h.data[idx][1] < 0)

C18_GradientSignsKept ==
    [][update_weight_gradients =>
          /\ saved_params' = saved_params
          /\ \A i \in Tracked :
                /\ params'[target_modules[i]] = params[target_modules[i]]
                /\ SameSigns(grads[target_modules[i]], grads'[target_modules[i]])]_vars

\* update_weight_gradients can be called on a gradient with positive and negative components
C18_Witness ==
    /\ pc = "idle"
    /\ error = ""
    /\ n_steps > 0
    /\ \E i \in Tracked :
          /\ grads[target_modules[i]] # None
          /\ \E idx, jdx \in Indices(grads[target_modules[i]].size) :
                /\ grads[target_modules[i]].data[idx][1] > 0
                /\ grads[target_modules[i]].data[jdx][1] < 0

(***************************************************************************)
(* C19: binarize_weights has no guard against already-binarized weights:   *)
(* when it is called on the values a previous binarize_weights left, with  *)
(* no restore in between, each shadow buffer ends up holding the centered  *)
(* and clamped image of those binarized values, and that image is what a   *)
(* following restore_weights brings back.                                  *)
(***************************************************************************)
\* within each output channel / unit, the non-zero elements share one magnitude
IsBinarizedValue(t) ==
    \A idx, jdx \in Indices(t.size) :
        (idx[1] = jdx[1] /\ t.data[idx] # Zero /\ t.data[jdx] # Zero)
            => (t.data[idx] = t.data[jdx] \/ t.data[idx] = RNeg(t.data[jdx]))

C19_DoubleBinarize ==
    (Constructed /\ entry_phase = "SHADOWED_AND_BINARIZED" /\ (Binarized \/ Restored)) =>
        \A i \in Tracked :
            /\ IsBinarizedValue(entry[i])
            /\ IsCenteredClampedOf(saved_params[i], entry[i])
            /\ Restored => TrackedParam(i) = saved_params[i]

\* binarize, binarize, restore straight after construction: a restored weight differs
\* from the centered and clamped real weight that the first call had saved
C19_Witness ==
    /\ Restored
    /\ entry_phase = "SHADOWED_AND_BINARIZED"
    /\ n_binarize = 2
    /\ n_steps = 0
    /\ \E i \in Tracked : \E idx \in Indices(TrackedParam(i).size) :
          TrackedParam(i).data[idx] # CenteredClampedAt(ctor.values[i], idx)

(***************************************************************************)
(* C20: the shadow buffers start as copies of the tracked parameters, so   *)
(* restore_weights called before any binarize_weights sets every tracked   *)
(* parameter back to the value it had at construction, whatever optimizer  *)
(* steps came in between.                                                  *)
(***************************************************************************)
C20_RestoreBeforeBinarize ==
    Constructed =>
        \A i \in Tracked :
            /\ n_binarize = 0 => saved_params[i] = ctor.values[i]
            /\ phase = "REAL_INITIAL" => TrackedParam(i) = ctor.values[i]

\* an optimizer step with a non-zero gradient, then restore_weights, no binarize_weights
C20_Witness ==
    /\ Constructed
    /\ phase = "REAL_INITIAL"
    /\ n_steps > 0
    /\ \E i \in Tracked :
          /\ grads[target_modules[i]] # None
          /\ ~IsZeroTensor(grads[target_modules[i]])

(***************************************************************************)
(* C21: the shadow buffers are written by the save step of                 *)
(* binarize_weights and by nothing else: a step of restore_weights, of     *)
(* update_weight_gradients, of the optimizer or of the rest of train()     *)
(* leaves saved_params as it is, and after a binarize_weights step the     *)
(* buffers hold what the save step copied, the centered and clamped        *)
(* weights, not the sign x scale values written over the parameters.       *)
(***************************************************************************)
C21_ShadowWrittenOnlyBySave ==
    [][Constructed =>
          /\ n_binarize' = n_binarize => saved_params' = saved_params
          /\ (n_binarize' # n_binarize /\ error' = "") =>
                \A i \in Tracked : IsCenteredClampedOf(saved_params'[i], TrackedParam(i))]_vars

\* binarize, an optimizer step with a non-zero gradient on the binarized weights, restore:
\* the shadow is not zero and differs from the sign x scale value
C21_Witness ==
    /\ Restored
    /\ n_steps > 0
    /\ grad_phase = "SHADOWED_AND_BINARIZED"
    /\ \E i \in Tracked :
          /\ grads[target_modules[i]] # None
          /\ ~IsZeroTensor(grads[target_modules[i]])
          /\ \E idx \in Indices(saved_params[i].size) :
                /\ saved_params[i].data[idx] # Zero
                /\ saved_params[i].data[idx] #
                      RMul(RSign(saved_params[i].data[idx]), ScaleAt(i, idx[1]))

(***************************************************************************)
(* C22: binarize_weights followed by restore_weights replaces each tracked *)
(* parameter by its centered and clamped value, and it leaves a tracked    *)
(* parameter unchanged exactly when that parameter was a fixed point of    *)
(* center-then-clamp: zero mean along dimension 1 and every element in     *)
(* [-1, 1].                                                                *)
(***************************************************************************)
IsFixedPointOfCenterClamp(t) ==
    \A idx \in Indices(t.size) :
        /\ SumAlongDim1(t, idx, t.size[2] - 1) = Zero
        /\ ~RLess(t.data[idx], MinusOne)
        /\ ~RLess(One, t.data[idx])

C22_CycleIdentityIffFixedPoint ==
    Restored =>
        \A i \in Tracked :
            /\ IsCenteredClampedOf(TrackedParam(i), entry[i])
            /\ TrackedParam(i) = entry[i] <=> IsFixedPointOfCenterClamp(entry[i])

\* after one cycle: a non-zero tracked weight that was a fixed point and came back
\* unchanged, and a tracked weight that was not and came back changed
C22_Witness ==
    /\ Restored
    /\ \E i, j \in Tracked :
          /\ IsFixedPointOfCenterClamp(entry[i])
          /\ ~IsZeroTensor(entry[i])
          /\ TrackedParam(i) = entry[i]
          /\ ~IsFixedPointOfCenterClamp(entry[j])
          /\ TrackedParam(j) # entry[j]

(***************************************************************************)
(* C23: BinaryActivation.backward is the identity straight-through         *)
(* estimator: for every input and every gradient of the output, the        *)
(* gradient it returns has the size of the gradient it was given and the   *)
(* same elements, also where the input lies outside [-1, 1]; the saved     *)
(* input has no influence on it.                                           *)
(***************************************************************************)
C23_BackwardIsIdentity ==
    act.pc = "done" =>
        /\ act.grad_input.size = act.grad_output.size
        /\ \A idx \in Indices(act.grad_output.size) :
              act.grad_input.data[idx] = act.grad_output.data[idx]

\* backward has run with a non-zero gradient at a position where |input| > 1
C23_Witness ==
    /\ act.pc = "done"
    /\ \E idx \in Indices(act.given.size) :
          /\ RLess(One, RAbs(act.given.data[idx]))
          /\ act.saved_tensors[1].data[idx] = act.given.data[idx]
          /\ act.grad_output.data[idx] # Zero
          /\ act.grad_input.data[idx] # Zero

(***************************************************************************)
(* C24: after binarize_weights every scale lies in [0, 1] and every        *)
(* element of every tracked parameter in [-1, 1]; from the first           *)
(* binarize_weights on every shadow element lies in [-1, 1], and so does   *)
(* every tracked parameter after restore_weights, until the optimizer      *)
(* steps.                                                                  *)
(***************************************************************************)
InUnitInterval(x) == ~RLess(x, Zero) /\ ~RLess(One, x)
InSignedUnitInterval(x) == ~RLess(x, MinusOne) /\ ~RLess(One, x)
AllInSignedUnitInterval(t) == \A idx \in Indices(t.size) : InSignedUnitInterval(t.data[idx])

C24_Bounded ==
    /\ Binarized =>
          \A i \in Tracked :
              /\ \A idx \in Indices(mean[i].size) : InUnitInterval(mean[i].data[idx])
              /\ AllInSignedUnitInterval(TrackedParam(i))
    /\ (Constructed /\ n_binarize > 0) =>
          \A i \in Tracked : AllInSignedUnitInterval(saved_params[i])
    /\ Restored => \A i \in Tracked : AllInSignedUnitInterval(TrackedParam(i))

\* a weight with an element outside [-1, 1] on entry has been binarized with a scale
\* strictly between 0 and 1 and restored to a value that reaches the bound
C24_Witness ==
    /\ Restored
    /\ \E i \in Tracked :
          /\ \E idx \in Indices(entry[i].size) : RLess(One, RAbs(entry[i].data[idx]))
          /\ \E idx \in Indices(mean[i].size) :
                RLess(Zero, mean[i].data[idx]) /\ RLess(mean[i].data[idx], One)
          /\ \E idx \in Indices(TrackedParam(i).size) : RAbs(TrackedParam(i).data[idx]) = One

====
